---- MODULE Spec2Model ----
(***************************************************************************)
(* Model of the type-wiz typing trainer: the kana segmenter                *)
(* (AppState::parse_hiragana), the keystroke automaton                     *)
(* (AppState::handle_char_input / handle_backspace), round finalisation    *)
(* (AppState::next_question) and the player ledger (PlayerData).           *)
(*                                                                         *)
(* Conventions.  A Rust String is a sequence of one-character strings      *)
(* (romanizations are ASCII, so byte length = character count).  A kana    *)
(* character is a token such as "SHI".  Vec indices keep the source's      *)
(* 0-based values; element i of a Vec v is v[i + 1].                       *)
(***************************************************************************)
EXTENDS Integers, Sequences, FiniteSets, TLC

VARIABLES
    mode,                    \* AppState.mode
    questions,               \* AppState.questions (shuffled list of kana phrases)
    current_question_index,  \* AppState.current_question_index
    char_states,             \* AppState.char_states
    current_char_index,      \* AppState.current_char_index
    is_error,                \* AppState.is_error
    start_time,              \* AppState.start_time: None or Some(clock reading)
    current_misses,          \* AppState.current_misses
    last_result,             \* AppState.last_cps/last_time/last_misses/last_score/last_xp_gained
    player_data,             \* AppState.player_data
    disk,                    \* the save files: what PlayerData::save last wrote to each
    panicked,                \* TRUE once an expect() has aborted the process
    now,                     \* the monotonic clock read by Instant::now(), in seconds
    last_event,              \* history: the last call made (a key, "Backspace", ...)
    typed_buf,               \* history: accepted keys of the round, a backspace deleting the last
    assumed_pos,             \* history: k when the round's calls so far are exactly the first k
                             \*   keys of the index-0 romanizations, -1 otherwise
    shape,                   \* history: "keys" (no backspace yet), "bs" (accepted keys, then
                             \*   at most as many backspaces), "mixed" (anything else)
    n_keys,                  \* history: handle_char_input calls while shape = "keys" (saturating)
    n_acc, n_bs,             \* history: accepted keys / backspaces counted while shape # "mixed"
    bs_snap,                 \* history: mistake count and assumed indices when the first
                             \*   backspace arrived
    last_key,                \* history: what handle_char_input did with the round's latest
                             \*   character key ("none" before the round's first one)
    p_chars, p_idx, p_result,\* parse_hiragana's locals chars, idx, result (segmenter run)
    p_dropped,               \* history: scan positions at which no key matched
    xp_frame                 \* the add_xp call of the ledger run, None when there is none:
                             \*   self, xp_to_add, chars_typed, leveled_up (the local, returned
                             \*   at the end), pc ("call", "loop", "done") and, as history,
                             \*   before (self when add_xp was called)

app_vars == <<mode, questions, current_question_index, char_states,
              current_char_index, is_error, start_time, current_misses,
              last_result, player_data, disk, panicked>>
env_vars == <<now>>
hist_vars == <<last_event, typed_buf, assumed_pos, shape, n_keys, n_acc, n_bs, bs_snap,
               last_key>>
parse_vars == <<p_chars, p_idx, p_result, p_dropped>>
xp_vars == <<xp_frame>>
vars == <<app_vars, env_vars, hist_vars, parse_vars, xp_vars>>

----------------------------------------------------------------------------
(* Bounds *)

MaxMisses == 1      \* rejected keystrokes counted per round
MaxHistory == 1     \* records kept in player_data.history
MaxNow == 1         \* seconds the clock can advance
MaxKeys == 4        \* handle_char_input calls counted per round before n_keys saturates
MaxKana == 4        \* length of the kana strings given to the segmenter run
MaxRounds == 2      \* rounds the event loop scores
MaxLevel == 3       \* highest level of the ledgers given to the add_xp run
MaxXp == 40         \* highest current_xp of the ledgers given to the add_xp run
MaxAdd == 60        \* highest xp_to_add given to the add_xp run
MaxChars == 1       \* highest chars_typed and total_typed_chars given to the add_xp run

----------------------------------------------------------------------------
(* Strings *)

last_match(S) ==
    \* the search keeps the last match instead of stopping at the first
    CHOOSE x \in S : \A y \in S : x >= y

Min(S) == CHOOSE x \in S : \A y \in S : x <= y
Max(S) == CHOOSE x \in S : \A y \in S : x >= y

\* str::starts_with
starts_with(s, prefix) ==
    /\ Len(prefix) <= Len(s)
    /\ SubSeq(s, 1, Len(prefix)) = prefix

\* s.chars().nth(n): "None" past the end
nth(s, n) == IF n < Len(s) THEN s[n + 1] ELSE "None"

RECURSIVE Concat(_)
Concat(ss) == IF ss = <<>> THEN <<>> ELSE Head(ss) \o Concat(Tail(ss))

RECURSIVE SumSeq(_)
SumSeq(ns) == IF ns = <<>> THEN 0 ELSE Head(ns) + SumSeq(Tail(ns))

----------------------------------------------------------------------------
(* Pattern dictionary (roman_mapping.rs) *)

roman_map ==
    (<<"SHI">> :> << <<"s","i">>, <<"s","h","i">> >>)
 @@ (<<"N">> :> << <<"n">>, <<"n","n">> >>)
 @@ (<<"CHI">> :> << <<"t","i">>, <<"c","h","i">> >>)
 @@ (<<"ya">> :> << <<"l","y","a">>, <<"x","y","a">> >>)
 @@ (<<"tsu">> :> << <<"l","t","u">>, <<"x","t","u">> >>)
 @@ (<<"SHI","ya">> :> << <<"s","y","a">>, <<"s","h","a">> >>)
 @@ (<<"CHI","ya">> :> << <<"t","y","a">>, <<"c","h","a">>, <<"c","y","a">> >>)
 @@ (<<"tsu","SHI","ya">> :> << <<"s","s","y","a">>, <<"s","s","h","a">> >>)

\* HashMap::get(..).is_some()
HasKey(k) == k \in DOMAIN roman_map

\* the kana characters that occur in the model: "ya" and "tsu" are the small
\* kana, "KANJI" is a character with no entry
Kana == {"SHI", "N", "CHI", "ya", "tsu", "KANJI"}

\* the keys a keyboard can send
Keys == {"s", "h", "i", "y", "a", "n", "t", "c", "x"}

----------------------------------------------------------------------------
(* CharState *)

CharState_new(hiragana, patterns) ==
    [hiragana |-> hiragana, patterns |-> patterns,
     current_pattern_idx |-> 0, typed_count |-> 0]

current_pattern(cs) == cs.patterns[cs.current_pattern_idx + 1]

is_complete_early(cs) ==
    \* the unit counts as complete one character early
    cs.typed_count + 1 >= Len(current_pattern(cs))

is_complete(cs) == cs.typed_count >= Len(current_pattern(cs))

remaining_whole(cs) ==
    \* the confirmed characters are not skipped
    current_pattern(cs)

remaining(cs) ==
    SubSeq(current_pattern(cs), cs.typed_count + 1, Len(current_pattern(cs)))

----------------------------------------------------------------------------
(* Segmenter: one iteration of parse_hiragana's while loop, and the loop *)

emit_advance_one(chars, idx, n, result) ==
    \* idx moves on by one character whatever the length of the key
    LET key == SubSeq(chars, idx + 1, idx + n)
    IN  [idx |-> idx + 1,
         result |-> Append(result, CharState_new(key, roman_map[key]))]

\* a key of n characters was found at idx: push its unit, advance by n
emit(chars, idx, n, result) ==
    LET key == SubSeq(chars, idx + 1, idx + n)
    IN  [idx |-> idx + n,
         result |-> Append(result, CharState_new(key, roman_map[key]))]

skip_two(idx, result) ==
    \* the character after the unknown one is lost as well
    [idx |-> idx + 2, result |-> result]

\* no key at idx: advance by one, push nothing
skip(idx, result) == [idx |-> idx + 1, result |-> result]

parse_step_shortest_first(chars, idx, result) ==
    \* the lookups run 1, 2, 3 characters instead of 3, 2, 1
    IF HasKey(SubSeq(chars, idx + 1, idx + 1))
    THEN emit(chars, idx, 1, result)
    ELSE IF idx + 1 < Len(chars) /\ HasKey(SubSeq(chars, idx + 1, idx + 2))
    THEN emit(chars, idx, 2, result)
    ELSE IF idx + 2 < Len(chars) /\ HasKey(SubSeq(chars, idx + 1, idx + 3))
    THEN emit(chars, idx, 3, result)
    ELSE skip(idx, result)

parse_step(chars, idx, result) ==
    IF idx + 2 < Len(chars) /\ HasKey(SubSeq(chars, idx + 1, idx + 3))
    THEN emit(chars, idx, 3, result)
    ELSE IF idx + 1 < Len(chars) /\ HasKey(SubSeq(chars, idx + 1, idx + 2))
    THEN emit(chars, idx, 2, result)
    ELSE IF HasKey(SubSeq(chars, idx + 1, idx + 1))
    THEN emit(chars, idx, 1, result)
    ELSE skip(idx, result)

RECURSIVE parse_loop(_, _, _)
parse_loop(chars, idx, result) ==
    IF idx < Len(chars)
    THEN LET s == parse_step(chars, idx, result)
         IN  parse_loop(chars, s.idx, s.result)
    ELSE result

parse_hiragana(text) == parse_loop(text, 0, <<>>)

----------------------------------------------------------------------------
(* Questions (questions.rs) *)

QUESTIONS_LIST == << <<"SHI", "N", "CHI", "ya">>, <<>> >>

Orders(list) ==
    {p \in [1..Len(list) -> 1..Len(list)] : \A i, j \in 1..Len(list) : p[i] = p[j] => i = j}

\* questions.shuffle(&mut rng): every order of the list
Shuffles(list) == {[i \in 1..Len(list) |-> list[p[i]]] : p \in Orders(list)}

----------------------------------------------------------------------------
(* AppState: the methods as functions of the state record s *)

App == [mode |-> mode, questions |-> questions,
        current_question_index |-> current_question_index,
        char_states |-> char_states, current_char_index |-> current_char_index,
        is_error |-> is_error, start_time |-> start_time,
        current_misses |-> current_misses, last_result |-> last_result,
        player_data |-> player_data, disk |-> disk, panicked |-> panicked]

\* Option<T>: None is <<>>, Some(x) is <<x>>
None == <<>>
Some(x) == <<x>>

load_current_question_keep_misses(s) ==
    \* the mistake count carries over into the loaded round
    [s EXCEPT !.char_states = parse_hiragana(s.questions[s.current_question_index + 1]),
              !.current_char_index = 0,
              !.is_error = FALSE]

load_current_question(s) ==
    [s EXCEPT !.char_states = parse_hiragana(s.questions[s.current_question_index + 1]),
              !.current_char_index = 0,
              !.is_error = FALSE,
              !.current_misses = 0]

\* the indices the for loop of handle_char_input can switch to
switch_candidates_no_prefix(cs, c) ==
    \* the starts_with test is left out
    {i \in 0..(Len(cs.patterns) - 1) :
        /\ i # cs.current_pattern_idx
        /\ nth(cs.patterns[i + 1], cs.typed_count) = c}

switch_candidates(cs, c) ==
    LET typed_so_far == SubSeq(current_pattern(cs), 1, cs.typed_count)
    IN  {i \in 0..(Len(cs.patterns) - 1) :
            /\ i # cs.current_pattern_idx
            /\ starts_with(cs.patterns[i + 1], typed_so_far)
            /\ nth(cs.patterns[i + 1], cs.typed_count) = c}

advance_cursor_stay(idx, cs) ==
    \* the cursor is left on a unit that has just been completed
    idx

advance_cursor_eager(idx, cs) ==
    \* the cursor moves on with every accepted key
    idx + 1

advance_cursor_skip(idx, cs) ==
    \* the cursor moves past the next unit as well
    IF is_complete(cs) THEN idx + 2 ELSE idx

\* the cursor after the unit at idx became cs
advance_cursor(idx, cs) == IF is_complete(cs) THEN idx + 1 ELSE idx

switch_to_keep_count(cs, i) ==
    \* the switch forgets to count the key
    [cs EXCEPT !.current_pattern_idx = i]

\* the unit after switching to candidate i
switch_to(cs, i) == [cs EXCEPT !.current_pattern_idx = i, !.typed_count = @ + 1]

reject_silent(s) ==
    \* a miss is counted but not shown
    [s EXCEPT !.current_misses = @ + 1]

reject_restart_unit(s) ==
    \* a miss also throws away the unit's progress
    [s EXCEPT !.is_error = TRUE, !.current_misses = @ + 1,
              !.char_states[s.current_char_index + 1].typed_count = 0]

\* the miss branch
reject(s) == [s EXCEPT !.is_error = TRUE, !.current_misses = @ + 1]

handle_char_input(s, c, t) ==
    LET s1 == IF s.start_time = None THEN [s EXCEPT !.start_time = Some(t)] ELSE s
    IN  IF s1.current_char_index >= Len(s1.char_states)
        THEN s1
        ELSE
          LET k == s1.current_char_index + 1
              current_state == s1.char_states[k]
              expected_char == nth(remaining(current_state), 0)
              cands == switch_candidates(current_state, c)
          IN  IF c = expected_char
              THEN LET adv == [current_state EXCEPT !.typed_count = @ + 1]
                   IN  [s1 EXCEPT !.char_states[k] = adv,
                                  !.is_error = FALSE,
                                  !.current_char_index = advance_cursor(@, adv)]
              ELSE IF cands # {}
              THEN LET sw == switch_to(current_state, Min(cands))
                   IN  [s1 EXCEPT !.char_states[k] = sw,
                                  !.is_error = FALSE,
                                  !.current_char_index = advance_cursor(@, sw)]
              ELSE reject(s1)

saturating_sub_to_zero(a, b) ==
    \* stepping back resets the unit instead of re-opening it
    0

saturating_sub_dropped(a, b) ==
    \* the subtraction is left out
    a

\* a.saturating_sub(b) on usize
saturating_sub(a, b) == IF a >= b THEN a - b ELSE 0

prev_len_of_old_unit(cstates, idx) ==
    \* the length is read before the cursor moved back
    Len(current_pattern(cstates[idx + 2]))

\* prev_len: the assumed candidate's length of the unit the cursor moved back to
prev_len_of(cstates, idx) == Len(current_pattern(cstates[idx + 1]))

clear_error_restart_timer(s) ==
    \* with nothing typed left, the timer starts over
    [s EXCEPT !.is_error = FALSE,
              !.start_time = IF /\ s.current_char_index = 0
                                /\ \A i \in 1..Len(s.char_states) :
                                      s.char_states[i].typed_count = 0
                             THEN None ELSE @]

clear_error_reset_assumed(s) ==
    \* a unit emptied by backspace goes back to its first candidate
    [s EXCEPT !.is_error = FALSE,
              !.char_states = [i \in 1..Len(@) |->
                                 IF @[i].typed_count = 0
                                 THEN [@[i] EXCEPT !.current_pattern_idx = 0]
                                 ELSE @[i]]]

clear_error_undo_miss(s) ==
    \* erasing a pending error also takes the miss back
    [s EXCEPT !.is_error = FALSE,
              !.current_misses = IF s.is_error /\ @ > 0 THEN @ - 1 ELSE @]

\* the last statement of handle_backspace
clear_error(s) == [s EXCEPT !.is_error = FALSE]

handle_backspace(s) ==
    LET s1 == IF /\ s.current_char_index >= Len(s.char_states)
                 /\ s.current_char_index > 0
              THEN [s EXCEPT !.current_char_index = @ - 1]
              ELSE s
        k == s1.current_char_index + 1
        s2 == IF s1.current_char_index < Len(s1.char_states)
              THEN IF s1.char_states[k].typed_count > 0
                   THEN [s1 EXCEPT !.char_states[k].typed_count = @ - 1]
                   ELSE IF s1.current_char_index > 0
                   THEN LET prev_len == prev_len_of(s1.char_states, s1.current_char_index - 1)
                        IN  [s1 EXCEPT !.current_char_index = @ - 1,
                                       !.char_states[k - 1].typed_count =
                                           saturating_sub(prev_len, 1)]
                   ELSE s1
              ELSE s1
    IN  clear_error(s2)

is_question_complete_strict(s) ==
    \* a round counts as complete only past its last unit
    s.current_char_index > Len(s.char_states)

is_question_complete(s) == s.current_char_index >= Len(s.char_states)

----------------------------------------------------------------------------
(* Round scorer arithmetic: the f64 values as exact fractions [num, den] *)

RECURSIVE GCD(_, _)
GCD(a, b) == IF b = 0 THEN a ELSE GCD(b, a % b)

Rat(n, d) == LET g == GCD(n, d) IN [num |-> n \div g, den |-> d \div g]
RMul(a, b) == Rat(a.num * b.num, a.den * b.den)
RAdd(a, b) == Rat(a.num * b.den + b.num * a.den, a.den * b.den)
RInt(n) == [num |-> n, den |-> 1]
\* f64::powi(3)
RCube(a) == RMul(a, RMul(a, a))
\* f64::round() as u32 of a non-negative value: half rounds up
RRound(a) == (2 * a.num + a.den) \div (2 * a.den)

\* total_chars: the sum of the assumed candidates' lengths
total_chars_of(cstates) ==
    SumSeq([i \in 1..Len(cstates) |-> Len(current_pattern(cstates[i]))])

accuracy_of_zero_attempts(total_chars, misses) ==
    \* no attempts counts as nothing right
    LET total_attempts == total_chars + misses
    IN  IF total_attempts > 0
        THEN RMul(Rat(total_chars, total_attempts), RInt(100))
        ELSE RInt(0)

\* accuracy in percent
accuracy_of(total_chars, misses) ==
    LET total_attempts == total_chars + misses
    IN  IF total_attempts > 0
        THEN RMul(Rat(total_chars, total_attempts), RInt(100))
        ELSE RInt(100)

cps_of(total_chars, duration_sec) ==
    IF duration_sec > 0 THEN Rat(total_chars, duration_sec) ELSE RInt(0)

score_of(total_chars, misses, duration_sec) ==
    RMul(RMul(RMul(cps_of(total_chars, duration_sec), RInt(100)),
              RCube(RMul(accuracy_of(total_chars, misses), Rat(1, 100)))),
         RInt(total_chars))

final_xp_of(total_chars, misses, duration_sec) ==
    LET base_xp == RInt(total_chars)
        skill_bonus == RAdd(RInt(1), RMul(cps_of(total_chars, duration_sec), Rat(1, 10)))
        accuracy_mod == RCube(RMul(accuracy_of(total_chars, misses), Rat(1, 100)))
    IN  RRound(RMul(RMul(base_xp, skill_bonus), accuracy_mod))

----------------------------------------------------------------------------
(* PlayerData (save_data.rs) *)

PlayerData_default ==
    [level |-> 1, current_xp |-> 0, total_typed_chars |-> 0, total_misses |-> 0,
     history |-> <<>>]

\* round(level^1.1 * 10) for the levels the model reaches
RequiredXpTable == <<10, 21, 33, 46, 59, 72, 85, 98>>
required_xp_for_next_level(pd) == RequiredXpTable[pd.level]

level_up_once_next_threshold(pd) ==
    \* the level is raised before its threshold is paid
    [pd EXCEPT !.level = @ + 1,
               !.current_xp = @ - RequiredXpTable[pd.level + 1]]

\* the body of the while loop of add_xp
level_up_once(pd) ==
    [pd EXCEPT !.current_xp = @ - required_xp_for_next_level(pd),
               !.level = @ + 1]

RECURSIVE level_up_loop(_)
level_up_loop(pd) ==
    IF pd.current_xp >= required_xp_for_next_level(pd)
    THEN level_up_loop(level_up_once(pd))
    ELSE pd

add_xp_forget_chars(pd, xp_to_add, chars_typed) ==
    \* the lifetime character count is not kept
    level_up_loop([pd EXCEPT !.current_xp = @ + xp_to_add])

add_xp(pd, xp_to_add, chars_typed) ==
    level_up_loop([pd EXCEPT !.current_xp = @ + xp_to_add,
                             !.total_typed_chars = @ + chars_typed])

\* what the file system lets PlayerData::save do
SaveOutcomes == {"ok", "write_failed", "dir_panic"}

\* save(): both files written, or neither when File::create and fs::write fail
save(s, outcome) ==
    IF outcome = "ok"
    THEN [s EXCEPT !.disk = [bin |-> Some(s.player_data), json |-> Some(s.player_data)]]
    ELSE s

----------------------------------------------------------------------------
(* AppState::next_question *)

score_round(s, t) ==
    LET duration_sec == t - s.start_time[1]
        total_chars == total_chars_of(s.char_states)
        misses == s.current_misses
        cps == cps_of(total_chars, duration_sec)
        score == score_of(total_chars, misses, duration_sec)
        final_xp == final_xp_of(total_chars, misses, duration_sec)
        record == [question_hiragana |-> s.questions[s.current_question_index + 1],
                   total_chars |-> total_chars, duration_sec |-> duration_sec,
                   misses |-> misses, cps |-> cps, score |-> score,
                   xp_gained |-> final_xp]
        pd1 == [s.player_data EXCEPT !.history = Append(@, record)]
        pd2 == add_xp(pd1, final_xp, total_chars)
        pd3 == [pd2 EXCEPT !.total_misses = @ + misses]
    IN  [s EXCEPT !.last_result = Some([cps |-> cps, time |-> duration_sec,
                                        misses |-> misses, score |-> score,
                                        xp_gained |-> final_xp]),
                  !.player_data = pd3]

advance_question(s) ==
    [load_current_question(
        [s EXCEPT !.current_question_index = (@ + 1) % Len(s.questions)])
     EXCEPT !.start_time = None]

next_question(s, t, outcome) ==
    IF s.start_time # None
    THEN IF outcome = "dir_panic"
         THEN [score_round(s, t) EXCEPT !.panicked = TRUE]
         ELSE advance_question(save(score_round(s, t), outcome))
    ELSE advance_question(s)

----------------------------------------------------------------------------
(* The state machine *)

\* the state after a call is s (the call is evaluated once, as \E binds a value)
SetApp(call) ==
  \E s \in {call} :
    /\ mode' = s.mode
    /\ questions' = s.questions
    /\ current_question_index' = s.current_question_index
    /\ char_states' = s.char_states
    /\ current_char_index' = s.current_char_index
    /\ is_error' = s.is_error
    /\ start_time' = s.start_time
    /\ current_misses' = s.current_misses
    /\ last_result' = s.last_result
    /\ player_data' = s.player_data
    /\ disk' = s.disk
    /\ panicked' = s.panicked

\* the index-0 romanizations of the round's units, concatenated
AssumedText(cstates) ==
    Concat([i \in 1..Len(cstates) |-> cstates[i].patterns[1]])

\* how handle_char_input treated the key when it took s to s2: "ignored" is
\* the early return
KeyOutcome(s, s2) ==
    IF s.current_char_index >= Len(s.char_states) THEN "ignored"
    ELSE IF s2.current_misses > s.current_misses THEN "rejected"
    ELSE "accepted"

NoSnap == [misses |-> 0, idxs |-> <<>>]

AssumedIdxs(cstates) == [i \in 1..Len(cstates) |-> cstates[i].current_pattern_idx]

\* the round's calls are no longer keys followed by at most as many backspaces
Mixed ==
    /\ shape' = "mixed"
    /\ n_keys' = 0
    /\ n_acc' = 0
    /\ n_bs' = 0
    /\ bs_snap' = NoSnap

FreshHistory(ev) ==
    /\ last_event' = ev
    /\ typed_buf' = <<>>
    /\ assumed_pos' = 0
    /\ shape' = "keys"
    /\ n_keys' = 0
    /\ n_acc' = 0
    /\ n_bs' = 0
    /\ bs_snap' = NoSnap
    /\ last_key' = "none"

\* AppState::new() followed by the mode chosen from the command line
InitApp ==
    /\ \E m \in {"Menu", "Typing", "Log"}, qs \in Shuffles(QUESTIONS_LIST) :
          LET s == load_current_question(
                     [mode |-> m, questions |-> qs, current_question_index |-> 0,
                      char_states |-> <<>>, current_char_index |-> 0,
                      is_error |-> FALSE, start_time |-> None, current_misses |-> 0,
                      last_result |-> None, player_data |-> PlayerData_default,
                      disk |-> [bin |-> None, json |-> None], panicked |-> FALSE])
          IN  /\ mode = s.mode
              /\ questions = s.questions
              /\ current_question_index = s.current_question_index
              /\ char_states = s.char_states
              /\ current_char_index = s.current_char_index
              /\ is_error = s.is_error
              /\ start_time = s.start_time
              /\ current_misses = s.current_misses
              /\ last_result = s.last_result
              /\ player_data = s.player_data
              /\ disk = s.disk
              /\ panicked = s.panicked
    /\ now = 0
    /\ last_event = "new"
    /\ typed_buf = <<>>
    /\ assumed_pos = 0
    /\ shape = "keys"
    /\ n_keys = 0
    /\ n_acc = 0
    /\ n_bs = 0
    /\ bs_snap = NoSnap
    /\ last_key = "none"

ParseIdle == p_chars = <<>> /\ p_idx = 0 /\ p_result = <<>> /\ p_dropped = {}

XpIdle == xp_frame = <<>>

Init == InitApp /\ ParseIdle /\ XpIdle

Running == ~panicked /\ Len(player_data.history) < MaxHistory

\* show_menu: the selection made in the menu
ShowMenu(selection) ==
    /\ Running /\ mode = "Menu"
    /\ SetApp([App EXCEPT !.mode = CASE selection = 0 -> "Typing"
                                      [] selection = 2 -> "Log"
                                      [] selection = 5 -> "Exit"
                                      [] OTHER -> "Menu"])
    /\ last_event' = "menu"
    /\ UNCHANGED <<typed_buf, assumed_pos, shape, n_keys, n_acc, n_bs, bs_snap, last_key>>
    /\ UNCHANGED <<env_vars, parse_vars, xp_vars>>

\* show_log: any key returns to the menu
ShowLog ==
    /\ Running /\ mode = "Log"
    /\ SetApp([App EXCEPT !.mode = "Menu"])
    /\ last_event' = "log"
    /\ UNCHANGED <<typed_buf, assumed_pos, shape, n_keys, n_acc, n_bs, bs_snap, last_key>>
    /\ UNCHANGED <<env_vars, parse_vars, xp_vars>>

\* the clock advances.  The program reads it only against start_time
\* (elapsed()), so time passing while no start_time is recorded shows nowhere
\* and is left out.
Tick ==
    /\ Running /\ now < MaxNow
    /\ start_time # None
    /\ now' = now + 1
    /\ UNCHANGED <<app_vars, hist_vars, parse_vars, xp_vars>>

HandleCharInput(c) ==
    /\ Running /\ mode = "Typing"
    /\ \E s2 \in {handle_char_input(App, c, now)} :
       LET outcome == KeyOutcome(App, s2)
           text == AssumedText(char_states)
       IN  /\ s2.current_misses <= MaxMisses
           /\ SetApp(s2)
           /\ last_event' = c
           /\ last_key' = outcome
           /\ typed_buf' = IF outcome = "accepted" THEN Append(typed_buf, c) ELSE typed_buf
           /\ assumed_pos' = IF /\ assumed_pos >= 0
                                /\ assumed_pos < Len(text)
                                /\ c = text[assumed_pos + 1]
                             THEN assumed_pos + 1
                             ELSE -1
           /\ IF shape = "keys"
              THEN /\ shape' = "keys"
                   /\ n_keys' = IF n_keys >= MaxKeys THEN n_keys ELSE n_keys + 1
                   /\ n_acc' = IF outcome = "accepted" THEN n_acc + 1 ELSE n_acc
                   /\ UNCHANGED <<n_bs, bs_snap>>
              ELSE Mixed
    /\ UNCHANGED <<env_vars, parse_vars, xp_vars>>

HandleBackspace ==
    /\ Running /\ mode = "Typing"
    /\ SetApp(handle_backspace(App))
    /\ last_event' = "Backspace"
    /\ UNCHANGED last_key
    /\ typed_buf' = IF typed_buf = <<>> THEN <<>>
                    ELSE SubSeq(typed_buf, 1, Len(typed_buf) - 1)
    /\ assumed_pos' = -1
    /\ CASE shape = "keys" /\ n_acc > 0 ->
              /\ shape' = "bs"
              /\ n_bs' = 1
              /\ bs_snap' = [misses |-> current_misses, idxs |-> AssumedIdxs(char_states)]
              /\ UNCHANGED <<n_keys, n_acc>>
         [] shape = "bs" /\ n_bs < n_acc ->
              /\ n_bs' = n_bs + 1
              /\ UNCHANGED <<shape, n_keys, n_acc, bs_snap>>
         [] OTHER -> Mixed
    /\ UNCHANGED <<env_vars, parse_vars, xp_vars>>

\* run_typing_mode calls next_question when the round is complete
NextQuestion(outcome) ==
    /\ Running /\ mode = "Typing"
    /\ is_question_complete(App)
    /\ SetApp(next_question(App, now, outcome))
    /\ IF start_time # None /\ outcome = "dir_panic"
       THEN /\ last_event' = "panic"
            /\ UNCHANGED <<typed_buf, assumed_pos, shape, n_keys, n_acc, n_bs, bs_snap, last_key>>
       ELSE FreshHistory("next_question")
    /\ UNCHANGED <<env_vars, parse_vars, xp_vars>>

\* Esc in run_typing_mode
Escape ==
    /\ Running /\ mode = "Typing"
    /\ SetApp(load_current_question([App EXCEPT !.mode = "Exit"]))
    /\ FreshHistory("Esc")
    /\ UNCHANGED <<env_vars, parse_vars, xp_vars>>

Next ==
    \/ \E selection \in 0..5 : ShowMenu(selection)
    \/ ShowLog
    \/ Tick
    \/ \E c \in Keys : HandleCharInput(c)
    \/ HandleBackspace
    \/ \E outcome \in SaveOutcomes : NextQuestion(outcome)
    \/ Escape

Spec == Init /\ [][Next]_vars

----------------------------------------------------------------------------
(* The event loop (main, run_typing_mode): one action per key event, each   *)
(* the whole match arm.  Of the history variables it keeps last_event and   *)
(* last_key; the others stay as Init left them.                             *)

RunningApp == ~panicked /\ Len(player_data.history) < MaxRounds

round_hist == <<typed_buf, assumed_pos, shape, n_keys, n_acc, n_bs, bs_snap>>

\* KeyCode::Char(c): handle_char_input, then next_question when the round is
\* complete
key_char(s, c, t, outcome) ==
    LET s2 == handle_char_input(s, c, t)
    IN  IF is_question_complete(s2) THEN next_question(s2, t, outcome) ELSE s2

MenuEvent(selection) ==
    /\ RunningApp /\ mode = "Menu"
    /\ SetApp([App EXCEPT !.mode = CASE selection = 0 -> "Typing"
                                      [] selection = 2 -> "Log"
                                      [] selection = 5 -> "Exit"
                                      [] OTHER -> "Menu"])
    /\ last_event' = "menu"
    /\ UNCHANGED <<last_key, round_hist, env_vars, parse_vars, xp_vars>>

LogEvent ==
    /\ RunningApp /\ mode = "Log"
    /\ SetApp([App EXCEPT !.mode = "Menu"])
    /\ last_event' = "log"
    /\ UNCHANGED <<last_key, round_hist, env_vars, parse_vars, xp_vars>>

ClockTick ==
    /\ RunningApp /\ now < MaxNow
    /\ start_time # None
    /\ now' = now + 1
    /\ UNCHANGED <<app_vars, hist_vars, parse_vars, xp_vars>>

\* the save outcome matters only when the key completes the round
KeyChar(c) ==
    /\ RunningApp /\ mode = "Typing"
    /\ \E s2 \in {handle_char_input(App, c, now)} :
         /\ s2.current_misses <= MaxMisses
         /\ IF is_question_complete(s2)
            THEN \E outcome \in SaveOutcomes :
                   \E s3 \in {key_char(App, c, now, outcome)} :
                      /\ SetApp(s3)
                      /\ last_key' = IF s3.panicked THEN KeyOutcome(App, s2) ELSE "none"
            ELSE /\ SetApp(key_char(App, c, now, "ok"))
                 /\ last_key' = KeyOutcome(App, s2)
    /\ last_event' = c
    /\ UNCHANGED <<round_hist, env_vars, parse_vars, xp_vars>>

KeyBackspace ==
    /\ RunningApp /\ mode = "Typing"
    /\ SetApp(handle_backspace(App))
    /\ last_event' = "Backspace"
    /\ UNCHANGED <<last_key, round_hist, env_vars, parse_vars, xp_vars>>

KeyEsc_scoring ==
    \* leaving a round finalises it like a completed one
    /\ RunningApp /\ mode = "Typing"
    /\ SetApp(load_current_question(
                [(IF start_time # None THEN score_round(App, now) ELSE App)
                 EXCEPT !.mode = "Exit"]))
    /\ last_event' = "Esc"
    /\ last_key' = "none"
    /\ UNCHANGED <<round_hist, env_vars, parse_vars, xp_vars>>

KeyEsc ==
    /\ RunningApp /\ mode = "Typing"
    /\ SetApp(load_current_question([App EXCEPT !.mode = "Exit"]))
    /\ last_event' = "Esc"
    /\ last_key' = "none"
    /\ UNCHANGED <<round_hist, env_vars, parse_vars, xp_vars>>

NextApp ==
    \/ \E selection \in 0..5 : MenuEvent(selection)
    \/ LogEvent
    \/ ClockTick
    \/ \E c \in Keys : KeyChar(c)
    \/ KeyBackspace
    \/ KeyEsc

SpecApp == Init /\ [][NextApp]_vars

----------------------------------------------------------------------------
(* The segmenter run on its own: parse_hiragana on every short kana string *)

RECURSIVE SeqsUpTo(_, _)
SeqsUpTo(S, n) ==
    IF n = 0 THEN {<<>>}
    ELSE LET shorter == SeqsUpTo(S, n - 1)
         IN  shorter \cup {Append(q, x) : q \in {r \in shorter : Len(r) = n - 1}, x \in S}

AppIdle ==
    /\ InitApp
    /\ mode = "Menu"
    /\ questions = QUESTIONS_LIST

InitParse ==
    /\ AppIdle
    /\ p_chars \in SeqsUpTo(Kana, MaxKana)
    /\ p_idx = 0
    /\ p_result = <<>>
    /\ p_dropped = {}
    /\ XpIdle

\* one iteration of the while loop
ParseIteration ==
    /\ p_idx < Len(p_chars)
    /\ LET st == parse_step(p_chars, p_idx, p_result)
       IN  /\ p_idx' = st.idx
           /\ p_result' = st.result
           /\ p_dropped' = IF st.result = p_result THEN p_dropped \cup {p_idx} ELSE p_dropped
    /\ UNCHANGED <<p_chars, app_vars, env_vars, hist_vars, xp_vars>>

NextParse == ParseIteration

SpecParse == InitParse /\ [][NextParse]_vars

----------------------------------------------------------------------------
(* The ledger run on its own: PlayerData::add_xp, statement by statement,   *)
(* on every small ledger and amount                                         *)

InitXp ==
    /\ AppIdle
    /\ ParseIdle
    /\ \E l \in 1..MaxLevel, x \in 0..MaxXp, n \in 0..MaxChars,
          xp \in 0..MaxAdd, chars \in 0..MaxChars :
          LET self == [PlayerData_default EXCEPT !.level = l, !.current_xp = x,
                                                 !.total_typed_chars = n]
          IN  xp_frame = [self |-> self, xp_to_add |-> xp, chars_typed |-> chars,
                          leveled_up |-> FALSE, pc |-> "call", before |-> self]

\* a call of add_xp is in progress at pc
XpAt(pc) == xp_frame # <<>> /\ xp_frame.pc = pc

\* the statements before the while loop
AddXpEnter ==
    /\ XpAt("call")
    /\ xp_frame' = [xp_frame EXCEPT
                      !.self = [@ EXCEPT !.current_xp = @ + xp_frame.xp_to_add,
                                         !.total_typed_chars = @ + xp_frame.chars_typed],
                      !.leveled_up = FALSE,
                      !.pc = "loop"]
    /\ UNCHANGED <<app_vars, env_vars, hist_vars, parse_vars>>

\* one iteration of the while loop
LevelUp ==
    /\ XpAt("loop")
    /\ xp_frame.self.current_xp >= required_xp_for_next_level(xp_frame.self)
    /\ xp_frame' = [xp_frame EXCEPT !.self = level_up_once(@), !.leveled_up = TRUE]
    /\ UNCHANGED <<app_vars, env_vars, hist_vars, parse_vars>>

\* the loop condition fails: leveled_up is returned
AddXpReturn ==
    /\ XpAt("loop")
    /\ ~(xp_frame.self.current_xp >= required_xp_for_next_level(xp_frame.self))
    /\ xp_frame' = [xp_frame EXCEPT !.pc = "done"]
    /\ UNCHANGED <<app_vars, env_vars, hist_vars, parse_vars>>

NextXp == AddXpEnter \/ LevelUp \/ AddXpReturn

SpecXp == InitXp /\ [][NextXp]_vars

----------------------------------------------------------------------------

(* Properties of the keystroke automaton (specification Spec) *)

InProgress == current_char_index < Len(char_states)

\* confirmed characters over all units
TotalConfirmed(cstates) ==
    SumSeq([i \in 1..Len(cstates) |-> cstates[i].typed_count])

\* this step is a call of the program (every call records itself in
\* last_event), not the clock advancing and not a stuttering step
CallStep == now' = now /\ vars' # vars

\* this step is a handle_char_input call / a handle_backspace call
KeyStep == CallStep /\ last_event' \in Keys
BackspaceStep == CallStep /\ last_event' = "Backspace"

\* C1: the cursor always lies in [0, number of units of the round]
Thm_C1 ==
    /\ current_char_index >= 0
    /\ current_char_index <= Len(char_states)

Witness_C1 ==
    /\ Len(char_states) > 0
    /\ current_char_index = Len(char_states)
    /\ last_event \in Keys

\* C2: no unit's confirmed-count exceeds the length of its assumed candidate
\* (every romanization of the dictionary being non-empty)
Thm_C2 ==
    (\A k \in DOMAIN roman_map : \A i \in 1..Len(roman_map[k]) : roman_map[k][i] # <<>>)
    => \A i \in 1..Len(char_states) :
          char_states[i].typed_count <= Len(current_pattern(char_states[i]))

\* a unit stepped back into by a backspace, after a switch in an earlier unit
Witness_C2 ==
    /\ last_event = "Backspace"
    /\ \E i \in 1..Len(char_states) :
          /\ i = current_char_index + 1
          /\ i > 1
          /\ char_states[i].typed_count = Len(current_pattern(char_states[i])) - 1
          /\ char_states[i - 1].current_pattern_idx > 0

\* C3: typing exactly the index-0 romanizations of the units, in order and from
\* a fresh round, ends with the cursor at the unit count, no mistake, no error
\* flag, no switched candidate and an accuracy of 100%
Thm_C3 ==
    assumed_pos = Len(AssumedText(char_states))
    => /\ current_char_index = Len(char_states)
       /\ current_misses = 0
       /\ is_error = FALSE
       /\ \A i \in 1..Len(char_states) : char_states[i].current_pattern_idx = 0
       /\ accuracy_of(total_chars_of(char_states), current_misses) = RInt(100)

Witness_C3 ==
    /\ Len(char_states) = 3
    /\ assumed_pos = Len(AssumedText(char_states))
    /\ last_event = "a"

\* the candidates other than the assumed one that continue the confirmed
\* prefix of unit cs with key c
Alternates(cs, c) ==
    {i \in 0..(Len(cs.patterns) - 1) :
        /\ i # cs.current_pattern_idx
        /\ cs.typed_count < Len(cs.patterns[i + 1])
        /\ SubSeq(cs.patterns[i + 1], 1, cs.typed_count)
             = SubSeq(current_pattern(cs), 1, cs.typed_count)
        /\ cs.patterns[i + 1][cs.typed_count + 1] = c}

\* the key differs from the assumed candidate's next character
OffAssumed(cs, c) ==
    \/ cs.typed_count >= Len(current_pattern(cs))
    \/ current_pattern(cs)[cs.typed_count + 1] # c

\* C4 (switch step): a key that differs from the assumed candidate's next
\* character while another candidate continues the confirmed prefix with it
\* is accepted: no mistake, error flag cleared, that candidate assumed,
\* confirmed-count one more
SwitchStep_C4 ==
    (KeyStep /\ InProgress)
    => LET k == current_char_index + 1
           cs == char_states[k]
           c == last_event'
       IN  (OffAssumed(cs, c) /\ Alternates(cs, c) # {})
           => /\ current_misses' = current_misses
              /\ is_error' = FALSE
              /\ char_states'[k].current_pattern_idx \in Alternates(cs, c)
              /\ char_states'[k].typed_count = cs.typed_count + 1

\* C4 (example): on a unit with candidates ["si","shi"] the keys s, h, i and
\* no others complete the unit with "shi" assumed, confirmed-count 3, no mistake
Example_C4 ==
    LET si == <<"s", "i">>
        shi == <<"s", "h", "i">>
    IN  (/\ Len(char_states) > 0
         /\ char_states[1].patterns = <<si, shi>>
         /\ shape = "keys" /\ n_keys = 3 /\ typed_buf = shi)
        => /\ current_pattern(char_states[1]) = shi
           /\ char_states[1].typed_count = 3
           /\ is_complete(char_states[1])
           /\ current_char_index = 1
           /\ current_misses = 0

\* C4: mid-unit switch
Thm_C4 == [][SwitchStep_C4]_vars /\ []Example_C4

Witness_C4 ==
    /\ Len(char_states) > 0
    /\ char_states[1].patterns = << <<"s", "i">>, <<"s", "h", "i">> >>
    /\ shape = "keys" /\ n_keys = 3 /\ typed_buf = <<"s", "h", "i">>
    /\ last_event = "i"

BackToStart ==
    /\ current_char_index = 0
    /\ \A i \in 1..Len(char_states) : char_states[i].typed_count = 0
    /\ current_misses = bs_snap.misses

\* n accepted keys from the start of the round, then n backspaces
KeysThenBackspaces == shape = "bs" /\ n_bs = n_acc

\* C5 as stated: n accepted keys then n backspaces give back the initial
\* state, every assumed-candidate index 0 included
Orig_C5 ==
    KeysThenBackspaces
    => /\ BackToStart
       /\ \A i \in 1..Len(char_states) : char_states[i].current_pattern_idx = 0

\* C5 (amended): n accepted keys then n backspaces give back cursor 0, every
\* confirmed-count 0 and the mistake count unchanged, while the assumed
\* candidate indices stay as the keys left them
Thm_C5 ==
    KeysThenBackspaces
    => /\ BackToStart
       /\ AssumedIdxs(char_states) = bs_snap.idxs

Witness_C5 ==
    /\ KeysThenBackspaces
    /\ n_acc >= 4
    /\ \E i \in 1..Len(char_states) : char_states[i].current_pattern_idx > 0

\* this step starts a round anew (load_current_question ran)
RoundStartStep == CallStep /\ last_event' \in {"next_question", "Esc"}

\* C6: within a round the mistake count never decreases; it grows only by 1
\* and only on a key that advanced no unit; accepted keys and backspaces
\* leave it alone
Step_C6 ==
    ~RoundStartStep
    => /\ current_misses' \in {current_misses, current_misses + 1}
       /\ current_misses' = current_misses + 1
            => /\ KeyStep
               /\ TotalConfirmed(char_states') = TotalConfirmed(char_states)
       /\ BackspaceStep => current_misses' = current_misses
       /\ (KeyStep /\ TotalConfirmed(char_states') > TotalConfirmed(char_states))
            => current_misses' = current_misses

Thm_C6 == [][Step_C6]_vars

\* a miss, then its correction, then more of the round: the count is still up
Witness_C6 ==
    /\ current_misses = 1
    /\ is_error = FALSE
    /\ last_event = "Backspace"
    /\ TotalConfirmed(char_states) >= 2

\* C7: in a round in progress, a key that is neither the assumed candidate's
\* next character nor continues the prefix in another candidate changes no
\* unit and not the cursor, sets the error flag and adds exactly one mistake
Step_C7 ==
    (KeyStep /\ InProgress)
    => LET cs == char_states[current_char_index + 1]
           c == last_event'
       IN  (OffAssumed(cs, c) /\ Alternates(cs, c) = {})
           => /\ current_char_index' = current_char_index
              /\ char_states' = char_states
              /\ is_error' = TRUE
              /\ current_misses' = current_misses + 1

Thm_C7 == [][Step_C7]_vars

\* a miss in the middle of a unit
Witness_C7 ==
    /\ is_error = TRUE
    /\ last_event = "x"
    /\ current_misses = 1
    /\ InProgress
    /\ char_states[current_char_index + 1].typed_count > 0

----------------------------------------------------------------------------
(* Properties of the segmenter (specification SpecParse) *)

\* every character of the string is a 1-character key
Covered(chars) == \A i \in 1..Len(chars) : <<chars[i]>> \in DOMAIN roman_map

\* the units' source kana, concatenated
SourceKana(result) == Concat([i \in 1..Len(result) |-> result[i].hiragana])

\* the scan is over
ParseDone == p_idx >= Len(p_chars)

\* the lengths of the dictionary keys found in chars at position idx
KeyLengthsAt(chars, idx) ==
    {n \in 1..3 : idx + n <= Len(chars) /\ SubSeq(chars, idx + 1, idx + n) \in DOMAIN roman_map}

\* the unit of the dictionary key of n characters at position idx
UnitAt(chars, idx, n) ==
    LET key == SubSeq(chars, idx + 1, idx + n)
    IN  [hiragana |-> key, patterns |-> roman_map[key],
         current_pattern_idx |-> 0, typed_count |-> 0]

\* C8: on a string of 1-character keys the scan never passes the end and the
\* units emitted so far spell exactly the characters scanned so far; at the
\* end of the scan they spell the input
Thm_C8 ==
    Covered(p_chars)
    => /\ p_idx <= Len(p_chars)
       /\ SourceKana(p_result) = SubSeq(p_chars, 1, p_idx)
       /\ ParseDone => SourceKana(p_result) = p_chars

Witness_C8 ==
    /\ Covered(p_chars)
    /\ ParseDone
    /\ Len(p_chars) = 4
    /\ Len(p_result) = 2
    /\ Len(p_result[1].hiragana) = 3

\* C9 (every position): the unit emitted is that of the longest key there
Longest_C9 ==
    (p_idx' # p_idx /\ KeyLengthsAt(p_chars, p_idx) # {})
    => LET n == Max(KeyLengthsAt(p_chars, p_idx))
       IN  /\ p_idx' = p_idx + n
           /\ p_result' = Append(p_result, UnitAt(p_chars, p_idx, n))

\* C9 (two against one): with a 2-character key, the 1-character key of its
\* first character and no 3-character key at the position, one 2-character
\* unit is emitted
TwoNotOnes_C9 ==
    (p_idx' # p_idx /\ KeyLengthsAt(p_chars, p_idx) = {1, 2})
    => /\ Len(p_result') = Len(p_result) + 1
       /\ p_result'[Len(p_result')].hiragana = SubSeq(p_chars, p_idx + 1, p_idx + 2)
       /\ p_idx' = p_idx + 2

\* C9: longest-match priority
Thm_C9 == [][Longest_C9 /\ TwoNotOnes_C9]_vars

Witness_C9 ==
    /\ ParseDone
    /\ p_chars = <<"SHI", "ya", "SHI">>
    /\ Len(p_result) = 2

\* C10 (the step): where no key of 3, 2 or 1 characters matches, the scan
\* moves on by one character and emits nothing
Drop_C10 ==
    (p_idx' # p_idx /\ KeyLengthsAt(p_chars, p_idx) = {})
    => /\ p_idx' = p_idx + 1
       /\ p_result' = p_result

\* C10 (the neighbours): the units of the whole string are those of the part
\* before a dropped character followed by those of the part after it
Around_C10 ==
    ParseDone
    => \A i \in p_dropped :
          p_result = parse_hiragana(SubSeq(p_chars, 1, i))
                       \o parse_hiragana(SubSeq(p_chars, i + 2, Len(p_chars)))

\* C10: a character with no key is dropped
Thm_C10 == [][Drop_C10]_vars /\ []Around_C10

Witness_C10 ==
    /\ ParseDone
    /\ Len(p_chars) = 4
    /\ p_dropped = {2}
    /\ Len(p_result) = 2
    /\ Len(p_result[1].hiragana) = 2

----------------------------------------------------------------------------
(* Properties of the event loop (specification SpecApp) *)

Last(q) == q[Len(q)]

\* this step is a character key event
KeyEvent == CallStep /\ last_event' \in Keys

\* this step ran the scorer
ScoredStep == Len(player_data'.history) > Len(player_data.history)

\* the state next_question was called in during this key event
AtCompletion == handle_char_input(App, last_event', now)

EmptyPhrase == questions[current_question_index + 1] = <<>>

\* C11 (loading): the empty phrase has no units, and the round over it is
\* complete with no characters, no mistakes and 100% accuracy in every state,
\* the one right after loading included
Loaded_C11 ==
    /\ parse_hiragana(<<>>) = <<>>
    /\ EmptyPhrase
       => /\ char_states = <<>>
          /\ is_question_complete(App)
          /\ current_misses = 0
          /\ total_chars_of(char_states) = 0
          /\ accuracy_of(total_chars_of(char_states), current_misses) = RInt(100)

\* C11 (completing): the key event that ends the round over the empty phrase
\* appends a record with 0 characters, 0 mistakes, score 0 and 0 experience,
\* and the ledger's level, experience and totals stay as they were
Scored_C11 ==
    (KeyEvent /\ EmptyPhrase)
    => LET rec == Last(player_data'.history)
       IN  /\ player_data' = [player_data EXCEPT !.history = Append(@, rec)]
           /\ rec.question_hiragana = <<>>
           /\ rec.total_chars = 0
           /\ rec.misses = 0
           /\ rec.score = RInt(0)
           /\ rec.xp_gained = 0

\* C11: the round over an empty phrase
Thm_C11 == []Loaded_C11 /\ [][Scored_C11]_vars

Witness_C11 ==
    /\ player_data.history # <<>>
    /\ Last(player_data.history).question_hiragana = <<>>
    /\ Last(player_data.history).total_chars = 0

\* C12: at every scoring, characters per second is 0 when no time elapsed and
\* total_chars / elapsed otherwise; accuracy is 100 when total_chars + misses
\* is 0 and total_chars / (total_chars + misses) * 100 otherwise; the record
\* carries the score computed from these two
Scoring_C12 ==
    (KeyEvent /\ ScoredStep)
    => LET s == AtCompletion
           tc == total_chars_of(s.char_states)
           m == s.current_misses
           d == now - s.start_time[1]
           rec == Last(player_data'.history)
           acc == accuracy_of(tc, m)
       IN  /\ d = 0 => rec.cps = RInt(0)
           /\ d > 0 => rec.cps.den > 0 /\ rec.cps.num * d = tc * rec.cps.den
           /\ tc + m = 0 => acc = RInt(100)
           /\ tc + m > 0 => acc.den > 0 /\ acc.num * (tc + m) = 100 * tc * acc.den
           /\ rec.score = RMul(RMul(RMul(rec.cps, RInt(100)),
                                    RCube(RMul(acc, Rat(1, 100)))), RInt(tc))

Thm_C12 == [][Scoring_C12]_vars

\* a round with no attempts scored at elapsed time 0 and a round with
\* mistakes scored after the clock advanced
Witness_C12 ==
    \E i, j \in 1..Len(player_data.history) :
       /\ player_data.history[i].total_chars = 0
       /\ player_data.history[i].misses = 0
       /\ player_data.history[i].duration_sec = 0
       /\ player_data.history[j].total_chars > 0
       /\ player_data.history[j].misses > 0
       /\ player_data.history[j].duration_sec > 0

\* this step is the Esc key event
EscEvent == CallStep /\ last_event' = "Esc"

\* C13: the Esc key event leaves the player data (history, level, experience,
\* lifetime characters and misses), the last result and the save files as
\* they were
Abandon_C13 ==
    EscEvent => /\ player_data' = player_data
                /\ last_result' = last_result
                /\ disk' = disk

Thm_C13 == [][Abandon_C13]_vars

\* left with Esc after an earlier round was scored and keys of this round
\* (start_time is recorded) were typed
Witness_C13 ==
    /\ last_event = "Esc"
    /\ mode = "Exit"
    /\ start_time # None
    /\ Len(player_data.history) = 1

\* experience earned over all levels: the levels paid for plus current_xp
CumulativeXp(pd) ==
    pd.current_xp + SumSeq(SubSeq(RequiredXpTable, 1, pd.level - 1))

\* C14: a key event after which the round is complete (for a round with units
\* the key that completes it, for a round without units its first key)
\* appends one record to the history, earlier records untouched, and adds the
\* record's experience, characters and misses to the ledger once; every other
\* step leaves the player data as it was
Once_C14 ==
    IF KeyEvent /\ is_question_complete(AtCompletion)
    THEN LET s == AtCompletion
             rec == Last(player_data'.history)
         IN  /\ player_data'.history = Append(player_data.history, rec)
             /\ rec.question_hiragana = questions[current_question_index + 1]
             /\ rec.total_chars = total_chars_of(s.char_states)
             /\ rec.misses = s.current_misses
             /\ CumulativeXp(player_data') = CumulativeXp(player_data) + rec.xp_gained
             /\ player_data'.total_typed_chars
                  = player_data.total_typed_chars + rec.total_chars
             /\ player_data'.total_misses = player_data.total_misses + rec.misses
    ELSE player_data' = player_data

Thm_C14 == [][Once_C14]_vars

\* two rounds scored, the one with units earning enough for a level
Witness_C14 ==
    /\ Len(player_data.history) = 2
    /\ \E i \in 1..2 : player_data.history[i].total_chars > 0
    /\ player_data.level > 1

\* the round, player and result fields of the state (all but the save files
\* and the abort flag)
in_memory(s) == [s EXCEPT !.disk = None, !.panicked = FALSE]

\* C15: whatever the save does, the key event that completes a round returns
\* with the in-memory state a successful save leaves
Orig_C15 ==
    [][(KeyEvent /\ is_question_complete(AtCompletion))
       => /\ ~panicked'
          /\ in_memory(App)' = in_memory(key_char(App, last_event', now, "ok"))]_vars

----------------------------------------------------------------------------
(* Properties of handle_backspace (specification Spec) *)

\* nothing to erase: no units, or the cursor on unit 0 with nothing confirmed
NothingTyped ==
    IF Len(char_states) = 0 THEN TRUE
    ELSE current_char_index = 0 /\ char_states[1].typed_count = 0

\* C16: a handle_backspace call with nothing to erase changes no field of the
\* state but is_error, which is false afterwards (cursor, units, mistake count
\* and start timestamp stay)
NoOp_C16 ==
    (BackspaceStep /\ NothingTyped)
    => /\ is_error' = FALSE
       /\ current_char_index' = current_char_index
       /\ char_states' = char_states
       /\ current_misses' = current_misses
       /\ start_time' = start_time
       /\ UNCHANGED <<mode, questions, current_question_index, last_result,
                      player_data, disk, panicked>>

Thm_C16 == [][NoOp_C16]_vars

\* backspace as the first call of a round over a phrase with units
Witness_C16 ==
    /\ last_event = "Backspace"
    /\ start_time = None
    /\ Len(char_states) > 0
    /\ NothingTyped
    /\ ~is_error

\* the key of this step took the switch branch of handle_char_input
SwitchedUnit ==
    /\ KeyStep
    /\ InProgress
    /\ LET cs == char_states[current_char_index + 1]
           c == last_event'
       IN  /\ c # nth(remaining(cs), 0)
           /\ switch_candidates(cs, c) # {}
           /\ AssumedIdxs(char_states')
                = [AssumedIdxs(char_states) EXCEPT ![current_char_index + 1] =
                       Min(switch_candidates(cs, c))]

\* C17: a handle_backspace call leaves every unit's assumed index as it was;
\* within a round only a key taking the switch branch changes one
KeepIdx_C17 ==
    /\ BackspaceStep => AssumedIdxs(char_states') = AssumedIdxs(char_states)
    /\ (CallStep /\ ~RoundStartStep /\ AssumedIdxs(char_states') # AssumedIdxs(char_states))
       => SwitchedUnit

Thm_C17 == [][KeepIdx_C17]_vars

\* the whole phrase typed with switches, then one backspace re-opening the
\* last unit
Witness_C17 ==
    /\ last_event = "Backspace"
    /\ shape = "bs" /\ n_bs = 1
    /\ Len(char_states) = 3
    /\ current_char_index = 2
    /\ char_states[1].current_pattern_idx = 1
    /\ char_states[3].current_pattern_idx = 1
    /\ char_states[3].typed_count = 2

\* the romanization on screen: each unit's confirmed characters
VisibleText(cstates) ==
    Concat([i \in 1..Len(cstates) |->
              SubSeq(current_pattern(cstates[i]), 1, cstates[i].typed_count)])

DropLast(q) == SubSeq(q, 1, Len(q) - 1)

\* C18 (boundary): with the cursor past unit 0 on a unit with nothing
\* confirmed, backspace moves the cursor back by 1 and leaves the unit there
\* one short of its assumed romanization
Boundary_C18 ==
    (/\ BackspaceStep
     /\ InProgress
     /\ current_char_index > 0
     /\ char_states[current_char_index + 1].typed_count = 0)
    => /\ current_char_index' = current_char_index - 1
       /\ char_states' = [char_states EXCEPT ![current_char_index].typed_count =
                             Len(current_pattern(char_states[current_char_index])) - 1]
       /\ char_states'[current_char_index].typed_count >= 0
       /\ VisibleText(char_states) # <<>>
       /\ VisibleText(char_states') = DropLast(VisibleText(char_states))

\* C18 (re-opening): with the cursor at the unit count, backspace moves it to
\* the last unit and leaves that unit one short of its assumed romanization
Reopen_C18 ==
    (/\ BackspaceStep
     /\ Len(char_states) > 0
     /\ current_char_index = Len(char_states))
    => /\ current_char_index' = current_char_index - 1
       /\ char_states' = [char_states EXCEPT ![current_char_index].typed_count =
                             Len(current_pattern(char_states[current_char_index])) - 1]
       /\ VisibleText(char_states) # <<>>
       /\ VisibleText(char_states') = DropLast(VisibleText(char_states))

Thm_C18 == [][Boundary_C18 /\ Reopen_C18]_vars

\* unit 0 completed by its keys ("shi"), then one backspace from unit 1
Witness_C18 ==
    /\ last_event = "Backspace"
    /\ shape = "bs" /\ n_bs = 1
    /\ current_char_index = 0
    /\ n_acc = Len(current_pattern(char_states[1]))
    /\ char_states[1].typed_count = 2
    /\ VisibleText(char_states) = <<"s", "h">>

----------------------------------------------------------------------------
(* The error flag and the start timestamp over the event loop (SpecApp) *)

BackspaceEvent == CallStep /\ last_event' = "Backspace"

\* this step loaded a round: Esc, or a key event that completed a round and
\* returned
RoundLoaded == EscEvent \/ (KeyEvent /\ is_question_complete(AtCompletion) /\ ~panicked')

\* the key of this step continues the assumed romanization of the unit at the
\* cursor or another candidate sharing the confirmed prefix / it does neither
KeyFits ==
    /\ InProgress
    /\ LET cs == char_states[current_char_index + 1]
       IN  ~OffAssumed(cs, last_event') \/ Alternates(cs, last_event') # {}
KeyOff ==
    /\ InProgress
    /\ LET cs == char_states[current_char_index + 1]
       IN  OffAssumed(cs, last_event') /\ Alternates(cs, last_event') = {}

\* C19 as stated: the flag is up exactly when the round's latest character
\* key advanced no unit
Orig_C19 ==
    ~panicked => (is_error <=> last_key \in {"rejected", "ignored"})

\* C19 (states): the flag is up exactly when the latest event of the round is
\* a rejected character key
Flag_C19 ==
    is_error <=> (last_event \in Keys /\ last_key = "rejected")

\* C19 (steps): a rejected key raises the flag, an accepted key (direct or
\* switching) and every backspace lower it, a loaded round starts with it down
Steps_C19 ==
    /\ (KeyEvent /\ KeyOff) => is_error' /\ last_key' = "rejected"
    /\ (KeyEvent /\ KeyFits) => ~is_error' /\ last_key' \in {"accepted", "none"}
    /\ BackspaceEvent => ~is_error'
    /\ RoundLoaded => ~is_error' /\ last_key' = "none"

Thm_C19 == []Flag_C19 /\ [][Steps_C19]_vars

\* a rejected key followed by a backspace: the flag is down although the
\* round's latest character key advanced no unit
Witness_C19 ==
    /\ last_event = "Backspace"
    /\ last_key = "rejected"
    /\ current_misses = 1
    /\ ~is_error

\* C20: the timestamp is unset when a round is loaded, whether after a
\* completed round or after Esc; the first key of a round records the clock
\* (accepted or rejected); backspace and later keys leave it alone
Orig_C20 ==
    [][/\ RoundLoaded => start_time' = None
       /\ (KeyEvent /\ InProgress /\ start_time = None
                    /\ ~is_question_complete(AtCompletion))
          => start_time' = Some(now)
       /\ (KeyEvent /\ start_time # None /\ ~is_question_complete(AtCompletion))
          => start_time' = start_time
       /\ BackspaceEvent => start_time' = start_time]_vars

----------------------------------------------------------------------------
(* Structure of the unit sequence (specification Spec) *)

\* C21: while the cursor is below the unit count, the unit at the cursor lacks
\* at least one character of its assumed romanization
Thm_C21 ==
    InProgress
    => LET cs == char_states[current_char_index + 1]
       IN  cs.typed_count < Len(current_pattern(cs))

\* in progress after keys, a switch in the unit at the cursor, a rejected key
\* and backspaces
Witness_C21 ==
    /\ InProgress
    /\ current_char_index > 0
    /\ shape = "mixed"
    /\ last_event = "Backspace"
    /\ current_misses = 1
    /\ char_states[current_char_index + 1].current_pattern_idx > 0
    /\ char_states[current_char_index + 1].typed_count > 0

\* the next character of the assumed romanization of unit cs
ExpectedKey(cs) == current_pattern(cs)[cs.typed_count + 1]

\* characters of the assumed romanizations not yet confirmed
CharsLeft(cstates) == total_chars_of(cstates) - TotalConfirmed(cstates)

\* the element of a one-element set
Only(S) == CHOOSE x \in S : TRUE

\* the number of keys, each the expected one at its turn and typed at clock
\* reading t, that complete the round from s; -1 when n keys do not, or when
\* one of them is not accepted as a key confirming one more character
RECURSIVE keys_to_complete(_, _, _)
keys_to_complete(s, n, t) ==
    IF is_question_complete(s) THEN 0
    ELSE IF n = 0 THEN -1
    ELSE Only({IF /\ s2.current_misses = s.current_misses
                  /\ ~s2.is_error
                  /\ TotalConfirmed(s2.char_states) = TotalConfirmed(s.char_states) + 1
               THEN Only({IF rest >= 0 THEN rest + 1 ELSE -1 :
                            rest \in {keys_to_complete(s2, n - 1, t)}})
               ELSE -1 :
               s2 \in {handle_char_input(
                         s, ExpectedKey(s.char_states[s.current_char_index + 1]), t)}})

\* C22: in every in-progress state the key equal to the assumed candidate's
\* next character is accepted (no mistake, no error flag) and confirms one
\* more character, and so does every expected key after it: the round
\* completes after exactly as many keys as characters are left
Thm_C22 ==
    InProgress
    => /\ CharsLeft(char_states) > 0
       /\ keys_to_complete(App, CharsLeft(char_states), now) = CharsLeft(char_states)

\* still in progress right after an accepted key, in a round with a mistake,
\* a switched unit behind the cursor and backspaces
Witness_C22 ==
    /\ InProgress
    /\ last_key = "accepted"
    /\ ~is_error
    /\ current_misses = 1
    /\ current_char_index > 0
    /\ char_states[1].current_pattern_idx > 0
    /\ shape = "mixed"
    /\ LET cs == char_states[current_char_index + 1]
       IN  /\ cs.typed_count > 0
           /\ current_pattern(cs)[cs.typed_count] = last_event

\* C23 (direct first): a key equal to the assumed candidate's next character
\* confirms one more character of it and leaves every assumed index alone,
\* other candidates matching the key or not
Direct_C23 ==
    (KeyStep /\ InProgress)
    => LET k == current_char_index + 1
           cs == char_states[k]
       IN  ~OffAssumed(cs, last_event')
           => /\ AssumedIdxs(char_states') = AssumedIdxs(char_states)
              /\ char_states'[k].typed_count = cs.typed_count + 1

\* C23 (smallest index): when the key is off the assumed candidate and fits
\* others that share the confirmed prefix, the one with the smallest index
\* is assumed afterwards
Smallest_C23 ==
    (KeyStep /\ InProgress)
    => LET k == current_char_index + 1
           cs == char_states[k]
           alts == Alternates(cs, last_event')
       IN  (OffAssumed(cs, last_event') /\ alts # {})
           => /\ char_states'[k].current_pattern_idx \in alts
              /\ \A j \in alts : char_states'[k].current_pattern_idx <= j

Thm_C23 == [][Direct_C23 /\ Smallest_C23]_vars

\* "si" typed directly although "shi" fitted the "s" too, then "c" on a unit
\* with candidates tya, cha, cya: cha (index 1) is assumed, not cya (index 2)
Witness_C23 ==
    /\ shape = "keys" /\ n_acc = 4 /\ current_misses = 0
    /\ typed_buf = <<"s", "i", "n", "c">>
    /\ Len(char_states) = 3
    /\ Len(char_states[3].patterns) = 3
    /\ char_states[1].current_pattern_idx = 0
    /\ char_states[3].current_pattern_idx = 1
    /\ char_states[3].typed_count = 1

----------------------------------------------------------------------------
(* Starting a round (specification SpecApp) *)

\* every unit as CharState::new leaves it
FreshUnits(cstates) ==
    \A i \in 1..Len(cstates) :
       cstates[i].typed_count = 0 /\ cstates[i].current_pattern_idx = 0

\* C24 (reset): when next_question returns, the question index is one more
\* modulo the number of questions, the units are those of that phrase with
\* nothing confirmed and candidate 0 assumed, the cursor is 0, the error flag
\* false, the mistake count 0 and the start timestamp unset
Reset_C24 ==
    (KeyEvent /\ is_question_complete(AtCompletion) /\ ~panicked')
    => /\ questions' = questions
       /\ current_question_index' = (current_question_index + 1) % Len(questions)
       /\ char_states' = parse_hiragana(questions[current_question_index' + 1])
       /\ FreshUnits(char_states')
       /\ current_char_index' = 0
       /\ is_error' = FALSE
       /\ current_misses' = 0
       /\ start_time' = None

\* C24 (no other reset): a step that loads no round never lowers the
\* mistake count
KeepMisses_C24 ==
    (CallStep /\ ~RoundLoaded) => current_misses' >= current_misses

Thm_C24 == [][Reset_C24 /\ KeepMisses_C24]_vars

\* the phrase with units is loaded again (the index wrapped round) after it
\* was completed with a mistake and "shi" assumed, and the empty phrase after it
Witness_C24 ==
    /\ Len(player_data.history) = 2
    /\ player_data.history[1].total_chars = 7
    /\ player_data.history[1].misses = 1
    /\ current_question_index = 0
    /\ Len(char_states) = 3
    /\ FreshUnits(char_states)
    /\ current_char_index = 0
    /\ current_misses = 0
    /\ start_time = None
    /\ last_event \in Keys

----------------------------------------------------------------------------
(* Shape of the unit sequence and of the typed text (specification Spec) *)

\* C25: every unit before the cursor is confirmed to the length of its
\* assumed candidate and every unit after the cursor has nothing confirmed;
\* so in a complete round every unit is confirmed in full and total_chars
\* (the sum of the assumed lengths) is the sum of the confirmed-counts
Thm_C25 ==
    /\ \A i \in 1..Len(char_states) :
          /\ i <= current_char_index
             => char_states[i].typed_count = Len(current_pattern(char_states[i]))
          /\ i > current_char_index + 1
             => char_states[i].typed_count = 0
    /\ is_question_complete(App)
       => /\ \A i \in 1..Len(char_states) :
                char_states[i].typed_count = Len(current_pattern(char_states[i]))
          /\ total_chars_of(char_states) = TotalConfirmed(char_states)

\* two units and one character of the third typed, then two backspaces: the
\* cursor is back on the second unit and the third, once typed into, is empty
Witness_C25 ==
    /\ last_event = "Backspace"
    /\ shape = "bs" /\ n_bs = 2
    /\ Len(char_states) = 3
    /\ current_char_index = 1
    /\ n_acc = Len(current_pattern(char_states[1])) + 2
    /\ char_states[3].current_pattern_idx = 1
    /\ char_states[3].typed_count = 0

\* C26: the confirmed characters of the units, in order, are the text made by
\* appending every accepted key and deleting the last character on every
\* backspace (rejected and ignored keys adding nothing)
Thm_C26 ==
    VisibleText(char_states) = typed_buf

\* "shi", "n" and "ch" on screen, two of the units switched, in a round with
\* a rejected key and backspaces
Witness_C26 ==
    /\ typed_buf = <<"s", "h", "i", "n", "c", "h">>
    /\ shape = "mixed"
    /\ current_misses = 1
    /\ last_event = "h"
    /\ char_states[1].current_pattern_idx = 1
    /\ char_states[3].current_pattern_idx = 1

----------------------------------------------------------------------------
(* Properties of the ledger (specification SpecXp) *)

\* the thresholds of the levels from..(to - 1), added up
ThresholdsPassed(from, to) ==
    SumSeq([i \in 1..(to - from) |-> RequiredXpTable[from + i - 1]])

\* C27 (termination): every iteration of the loop lowers current_xp, which
\* stays non-negative, and raises the level by one
Variant_C27 ==
    (XpAt("loop") /\ xp_frame'.pc = "loop" /\ xp_frame' # xp_frame)
    => /\ xp_frame'.self.current_xp < xp_frame.self.current_xp
       /\ xp_frame'.self.current_xp >= 0
       /\ xp_frame'.self.level = xp_frame.self.level + 1

\* C27 (result): when add_xp returns, current_xp is below the threshold of
\* the level, the level has not gone down, the old current_xp plus the amount
\* added is the new current_xp plus the thresholds of the levels passed,
\* total_typed_chars is up by chars_typed, the rest of the ledger is as it
\* was, and true is returned exactly when the level went up
Returned_C27 ==
    XpAt("done")
    => LET self == xp_frame.self
           before == xp_frame.before
       IN  /\ before.level >= 1
           /\ self.current_xp < required_xp_for_next_level(self)
           /\ self.current_xp >= 0
           /\ self.level >= before.level
           /\ before.current_xp + xp_frame.xp_to_add
                = self.current_xp + ThresholdsPassed(before.level, self.level)
           /\ self.total_typed_chars = before.total_typed_chars + xp_frame.chars_typed
           /\ self.total_misses = before.total_misses
           /\ self.history = before.history
           /\ xp_frame.leveled_up <=> self.level > before.level
           /\ self = add_xp(before, xp_frame.xp_to_add, xp_frame.chars_typed)

Thm_C27 == []Returned_C27 /\ [][Variant_C27]_vars

\* a call that passed two levels from a ledger holding experience already
Witness_C27 ==
    /\ XpAt("done")
    /\ xp_frame.before.current_xp > 0
    /\ xp_frame.chars_typed = 1
    /\ xp_frame.self.level = xp_frame.before.level + 2
    /\ xp_frame.leveled_up

====
